---- MODULE Spec2Model ----
(***************************************************************************)
(* Model of the emergency-call optimizer (main.go): nearest-neighbour      *)
(* search, the undirected weighted graph, the network builder, Dijkstra's  *)
(* algorithm over container/heap, and path reconstruction.                 *)
(*                                                                         *)
(* Coordinates are drawn from a small set of grid points whose pairwise    *)
(* Euclidean distances are whole numbers, so CalculateDistance is computed *)
(* exactly as the code computes it (sqrt of the sum of squares).           *)
(***************************************************************************)
EXTENDS Integers, Sequences, FiniteSets, TLC

VARIABLES
    pc,               \* position of the caller: which call is pending / done
    site,             \* FindNearestEmergencyCenter argument
    centers,          \* FindNearestEmergencyCenter argument
    point,            \* FindNearestHubs argument
    hubs,             \* FindNearestHubs / BuildNetworkGraph argument
    N,                \* FindNearestHubs argument
    telecomSites,     \* BuildNetworkGraph argument
    emergencyCenters, \* BuildNetworkGraph argument
    ret,              \* what the last call returned
    graph,            \* the Graph object (Nodes, Neighbors)
    lastEdge,         \* history: cost of the most recent AddEdge per unordered pair
    start,            \* Dijkstra argument
    distances,        \* Dijkstra local: distances
    previous,         \* Dijkstra local: previous
    priorityQueue,    \* Dijkstra local: the heap array
    visited,          \* Dijkstra local: visited
    firstRun,         \* history: the result of the first Dijkstra run, if any
    pathRet           \* what the last ReconstructPath call returned

vars == <<pc, site, centers, point, hubs, N, telecomSites, emergencyCenters, ret,
          graph, lastEdge, start, distances, previous, priorityQueue, visited,
          firstRun, pathRet>>

\* ------------------------------------------------------------------ bounds

MaxHubs == 5        \* longest hub list
MaxSites == 1       \* longest telecom-site list handed to BuildNetworkGraph
MaxCenters == 2     \* longest center list handed to FindNearestEmergencyCenter
MaxWeight == 1      \* largest edge cost handed to AddEdge

\* ------------------------------------------------------------ data structures

Pt(x, y) == [X |-> x, Y |-> y]

\* Point{}: the zero value
ZeroPoint == Pt(0, 0)

\* Grid points with whole-number pairwise distances (5, 5, 6).
Points == {Pt(1, 1), Pt(4, 5), Pt(7, 1)}

HubIDs == <<"H1", "H2", "H3", "H4", "H5", "H6">>
SiteIDs == <<"TS1", "TS2">>
CenterIDs == <<"EC1", "EC2", "EC3">>

\* EmergencyCenter{}: the zero value
ZeroCenter == [ID |-> "", Location |-> ZeroPoint]

NoErr == "nil"

\* math.MaxFloat64 and math.Inf(1): larger than every distance of the model
MaxFloat64 == 1000000
Inf == 2000000

\* TelecomSite.Validate
Validate(s) ==
    IF s.ID = "" \/ s.Location = ZeroPoint THEN "invalid TelecomSite data" ELSE NoErr

Pow2(x) == x * x

\* math.Sqrt on the perfect squares the grid produces
Sqrt(n) == CHOOSE r \in 0..n : r * r = n

CalculateDistance(a, b) == Sqrt(Pow2(a.X - b.X) + Pow2(a.Y - b.Y))

\* ------------------------------------------------------- nearest neighbours

RECURSIVE NearestLoop(_, _, _, _, _)
\* the range loop of FindNearestEmergencyCenter from index i on
NearestLoop(loc, cs, i, nearestCenter, minDistance) ==
    IF i > Len(cs) THEN nearestCenter
    ELSE LET dist == CalculateDistance(loc, cs[i].Location)
         IN  IF dist < minDistance
             THEN NearestLoop(loc, cs, i + 1, cs[i], dist)
             ELSE NearestLoop(loc, cs, i + 1, nearestCenter, minDistance)

FindNearestEmergencyCenter(s, cs) ==
    IF Validate(s) # NoErr
    THEN [center |-> ZeroCenter, err |-> Validate(s)]
    ELSE [center |-> NearestLoop(s.Location, cs, 1, ZeroCenter, MaxFloat64),
          err |-> NoErr]

\* mutant: the exchange writes position i only
SwapAtOverwrite(d, i, j) == [d EXCEPT ![i] = d[j]]

\* distances[i], distances[j] = distances[j], distances[i]
SwapAt(d, i, j) == [d EXCEPT ![i] = d[j], ![j] = d[i]]

RECURSIVE SortInner(_, _, _)
\* the inner loop over j for one i
SortInner(d, i, j) ==
    IF j > Len(d) THEN d
    ELSE SortInner(IF d[j].distance < d[i].distance THEN SwapAt(d, i, j) ELSE d,
                   i, j + 1)

RECURSIVE SortOuter(_, _)
\* the outer loop over i (1-based: i runs to Len - 1)
SortOuter(d, i) ==
    IF i > Len(d) - 1 THEN d ELSE SortOuter(SortInner(d, i, i + 1), i + 1)

RECURSIVE HubDistances(_, _, _, _)
\* the first loop: distances = append(distances, hubDistance{hub, dist})
HubDistances(p, hs, i, d) ==
    IF i > Len(hs) THEN d
    ELSE HubDistances(p, hs, i + 1,
                      Append(d, [hub |-> hs[i],
                                 distance |-> CalculateDistance(p, hs[i].Location)]))

RECURSIVE TakeHubs(_, _, _, _)
\* the last loop: nearestHubs[i] = distances[i].hub for i < n
TakeHubs(d, n, i, nearestHubs) ==
    IF i > n THEN nearestHubs
    ELSE TakeHubs(d, n, i + 1, Append(nearestHubs, d[i].hub))

\* mutant: the sort is skipped
FindNearestHubsUnsorted(p, hs, n) ==
    IF n <= 0 THEN [hubs |-> <<>>, err |-> "N must be greater than 0"]
    ELSE IF Len(hs) < n
    THEN [hubs |-> <<>>, err |-> "not enough hubs to find the nearest N hubs"]
    ELSE [hubs |-> TakeHubs(HubDistances(p, hs, 1, <<>>), n, 1, <<>>), err |-> NoErr]

FindNearestHubs(p, hs, n) ==
    IF n <= 0 THEN [hubs |-> <<>>, err |-> "N must be greater than 0"]
    ELSE IF Len(hs) < n
    THEN [hubs |-> <<>>, err |-> "not enough hubs to find the nearest N hubs"]
    ELSE [hubs |-> TakeHubs(SortOuter(HubDistances(p, hs, 1, <<>>), 1), n, 1, <<>>),
          err |-> NoErr]

\* ------------------------------------------------------------------- graph

EmptyMap == <<>>

\* m[k] = v on a Go map
MapSet(m, k, v) == (k :> v) @@ m

NewGraph == [Nodes |-> {}, Neighbors |-> EmptyMap]

AddNode(g, node) ==
    IF node \in g.Nodes THEN g
    ELSE [Nodes |-> g.Nodes \cup {node},
          Neighbors |-> MapSet(g.Neighbors, node, EmptyMap)]

\* mutant: only the from -> to direction is stored
AddEdgeOneWay(g, from, to, cost) ==
    LET g2 == AddNode(AddNode(g, from), to)
    IN  [g2 EXCEPT !.Neighbors = MapSet(g2.Neighbors, from, MapSet(g2.Neighbors[from], to, cost))]

AddEdge(g, from, to, cost) ==
    LET g2 == AddNode(AddNode(g, from), to)
        n1 == MapSet(g2.Neighbors, from, MapSet(g2.Neighbors[from], to, cost))
        n2 == MapSet(n1, to, MapSet(n1[to], from, cost))
    IN  [g2 EXCEPT !.Neighbors = n2]

\* ----------------------------------------------------------- network builder

RECURSIVE AddEdgesTo(_, _, _, _, _, _)
\* "for i := first; i < len(nearestHubs) && i <= last" : AddEdge(id, hub.ID, cost)
AddEdgesTo(g, id, loc, nearestHubs, i, last) ==
    IF i > Len(nearestHubs) \/ i > last THEN g
    ELSE AddEdgesTo(AddEdge(g, id, nearestHubs[i].ID,
                            CalculateDistance(loc, nearestHubs[i].Location)),
                    id, loc, nearestHubs, i + 1, last)

RECURSIVE ConnectLoop(_, _, _, _, _, _, _, _)
\* one of the three range loops of BuildNetworkGraph, from index i on:
\* every entity asks for n nearest hubs and is connected to those at
\* positions first..last of the answer; the first error ends the build
ConnectLoop(g, entities, hs, i, n, first, last, what) ==
    IF i > Len(entities) THEN [graph |-> g, err |-> NoErr]
    ELSE LET r == FindNearestHubs(entities[i].Location, hs, n)
         IN  IF r.err # NoErr
             THEN [graph |-> g, err |-> what]
             ELSE ConnectLoop(AddEdgesTo(g, entities[i].ID, entities[i].Location,
                                         r.hubs, first, last),
                              entities, hs, i + 1, n, first, last, what)

\* mutant: a failed build hands back the graph built so far
BuildNetworkGraphPartial(ts, hs, ecs) ==
    LET r1 == ConnectLoop(NewGraph, ts, hs, 1, 1, 1, 1, "error finding nearest hub")
        r2 == ConnectLoop(r1.graph, hs, hs, 1, 3, 2, 3, "error finding nearest hubs")
        r3 == ConnectLoop(r2.graph, ecs, hs, 1, 5, 1, 5, "error finding nearest hubs")
    IN  IF r1.err # NoErr THEN [graph |-> <<r1.graph>>, err |-> r1.err]
        ELSE IF r2.err # NoErr THEN [graph |-> <<r2.graph>>, err |-> r2.err]
        ELSE IF r3.err # NoErr THEN [graph |-> <<r3.graph>>, err |-> r3.err]
        ELSE [graph |-> <<r3.graph>>, err |-> NoErr]

\* the returned *Graph is <<>> for nil and <<g>> otherwise
BuildNetworkGraph(ts, hs, ecs) ==
    LET r1 == ConnectLoop(NewGraph, ts, hs, 1, 1, 1, 1, "error finding nearest hub")
        r2 == ConnectLoop(r1.graph, hs, hs, 1, 3, 2, 3, "error finding nearest hubs")
        r3 == ConnectLoop(r2.graph, ecs, hs, 1, 5, 1, 5, "error finding nearest hubs")
    IN  IF r1.err # NoErr THEN [graph |-> <<>>, err |-> r1.err]
        ELSE IF r2.err # NoErr THEN [graph |-> <<>>, err |-> r2.err]
        ELSE IF r3.err # NoErr THEN [graph |-> <<>>, err |-> r3.err]
        ELSE [graph |-> <<r3.graph>>, err |-> NoErr]

\* ------------------------------------------------- callers of the pure functions

\* all lists of length 0..n whose i-th entry carries the i-th identifier
EntityLists(ids, n) ==
    UNION {{[i \in 1..k |-> [ID |-> ids[i], Location |-> f[i]]] : f \in [1..k -> Points]}
           : k \in 0..n}

NoCall == [op |-> "none"]

SolverVarsIdle ==
    /\ graph = NewGraph
    /\ lastEdge = EmptyMap
    /\ start = ""
    /\ distances = EmptyMap
    /\ previous = EmptyMap
    /\ priorityQueue = <<>>
    /\ visited = {}
    /\ firstRun = <<>>
    /\ pathRet = NoCall

solverVars == <<graph, lastEdge, start, distances, previous, priorityQueue, visited,
                firstRun, pathRet>>
callVars == <<site, centers, point, hubs, N, telecomSites, emergencyCenters>>

\* The caller holds the arguments of one nearest-neighbour call.
Init ==
    /\ ret = NoCall
    /\ SolverVarsIdle
    /\ telecomSites = <<>> /\ emergencyCenters = <<>>
    /\ \/ /\ pc = "FindNearestEmergencyCenter"
          /\ site \in [ID : {"", "TS1"}, Location : Points \cup {ZeroPoint}]
          /\ centers \in EntityLists(CenterIDs, MaxCenters)
          /\ point = ZeroPoint /\ hubs = <<>> /\ N = 0
       \/ /\ pc = "FindNearestHubs"
          /\ point \in Points
          /\ hubs \in EntityLists(HubIDs, MaxHubs)
          /\ N \in 0..(MaxHubs + 1)
          /\ site = [ID |-> "", Location |-> ZeroPoint] /\ centers = <<>>

CallFindNearestEmergencyCenter ==
    /\ pc = "FindNearestEmergencyCenter"
    /\ LET r == FindNearestEmergencyCenter(site, centers)
       IN  ret' = [op |-> "FindNearestEmergencyCenter", center |-> r.center, err |-> r.err]
    /\ pc' = "returned"
    /\ UNCHANGED <<callVars, solverVars>>

CallFindNearestHubs ==
    /\ pc = "FindNearestHubs"
    /\ LET r == FindNearestHubs(point, hubs, N)
       IN  ret' = [op |-> "FindNearestHubs", hubs |-> r.hubs, err |-> r.err]
    /\ pc' = "returned"
    /\ UNCHANGED <<callVars, solverVars>>

Next ==
    \/ CallFindNearestEmergencyCenter
    \/ CallFindNearestHubs

Spec == Init /\ [][Next]_vars

\* The caller holds the three entity lists of one BuildNetworkGraph call.  Every
\* center is connected independently of the others, so at most one is given.
InitBuild ==
    /\ ret = NoCall
    /\ SolverVarsIdle
    /\ pc = "BuildNetworkGraph"
    /\ telecomSites \in EntityLists(SiteIDs, MaxSites)
    /\ hubs \in EntityLists(HubIDs, MaxHubs)
    /\ emergencyCenters \in EntityLists(CenterIDs, 1)
    /\ site = [ID |-> "", Location |-> ZeroPoint] /\ centers = <<>>
    /\ point = ZeroPoint /\ N = 0

CallBuildNetworkGraph ==
    /\ pc = "BuildNetworkGraph"
    /\ LET r == BuildNetworkGraph(telecomSites, hubs, emergencyCenters)
       IN  ret' = [op |-> "BuildNetworkGraph", graph |-> r.graph, err |-> r.err]
    /\ pc' = "returned"
    /\ UNCHANGED <<callVars, solverVars>>

NextBuild == CallBuildNetworkGraph

SpecBuild == InitBuild /\ [][NextBuild]_vars

\* ------------------------------------------------- callers of the Graph methods

GraphIds == {"A", "B", "C"}

CallsIdle ==
    /\ site = [ID |-> "", Location |-> ZeroPoint]
    /\ centers = <<>>
    /\ point = ZeroPoint
    /\ hubs = <<>>
    /\ N = 0
    /\ telecomSites = <<>>
    /\ emergencyCenters = <<>>
    /\ ret = NoCall

dijkstraVars == <<start, distances, previous, priorityQueue, visited, firstRun, pathRet>>

\* NewGraph(): no node, no edge
InitGraph ==
    /\ pc = "graph"
    /\ CallsIdle
    /\ SolverVarsIdle

DoAddNode(node) ==
    /\ pc = "graph"
    /\ graph' = AddNode(graph, node)
    /\ UNCHANGED <<pc, callVars, ret, lastEdge, dijkstraVars>>

\* lastEdge remembers, per unordered pair, the cost of the latest AddEdge and
\* whether that call replaced a different cost
DoAddEdge(from, to, cost) ==
    /\ pc = "graph"
    /\ graph' = AddEdge(graph, from, to, cost)
    /\ lastEdge' = MapSet(lastEdge, {from, to},
                          [cost |-> cost,
                           overwrote |-> /\ {from, to} \in DOMAIN lastEdge
                                         /\ lastEdge[{from, to}].cost # cost])
    /\ UNCHANGED <<pc, callVars, ret, dijkstraVars>>

NextGraph ==
    \/ \E node \in GraphIds : DoAddNode(node)
    \/ \E from, to \in GraphIds, cost \in 0..MaxWeight : DoAddEdge(from, to, cost)

SpecGraph == InitGraph /\ [][NextGraph]_vars

\* ------------------------------------------------ priority queue (container/heap)
\* The queue is the heap array; position k of the Go slice is element k + 1.

\* mutant: the comparison is reversed (a max-heap)
LessReversed(pq, i, j) == pq[i + 1].Priority > pq[j + 1].Priority

\* MinPriorityQueue.Less
Less(pq, i, j) == pq[i + 1].Priority < pq[j + 1].Priority

\* MinPriorityQueue.Swap
Swap(pq, i, j) ==
    [pq EXCEPT ![i + 1] = [pq[j + 1] EXCEPT !.Index = i],
               ![j + 1] = [pq[i + 1] EXCEPT !.Index = j]]

\* MinPriorityQueue.Push
Push(pq, item) == Append(pq, [item EXCEPT !.Index = Len(pq)])

RECURSIVE Up(_, _)
\* heap.up: Go's (j - 1) / 2 truncates toward zero, so the parent of 0 is 0
Up(pq, j) ==
    LET i == IF j = 0 THEN 0 ELSE (j - 1) \div 2
    IN  IF i = j \/ ~Less(pq, j, i) THEN pq ELSE Up(Swap(pq, i, j), i)

RECURSIVE Down(_, _, _)
\* heap.down
Down(pq, i, n) ==
    LET j1 == 2 * i + 1
        j  == IF j1 + 1 < n /\ Less(pq, j1 + 1, j1) THEN j1 + 1 ELSE j1
    IN  IF j1 >= n THEN pq
        ELSE IF ~Less(pq, j, i) THEN pq
        ELSE Down(Swap(pq, i, j), j, n)

\* heap.Push
HeapPush(pq, item) == Up(Push(pq, item), Len(pq))

\* heap.Pop: the item taken and the queue left (MinPriorityQueue.Pop takes the
\* last element and sets its Index to -1)
HeapPop(pq) ==
    LET n  == Len(pq) - 1
        q2 == Down(Swap(pq, 0, n), 0, n)
    IN  [item |-> [q2[n + 1] EXCEPT !.Index = -1], queue |-> SubSeq(q2, 1, n)]

\* ----------------------------------------------------------------- Dijkstra

NodeIds == {"A", "B", "C", "D"}

\* the orders in which a range over a map with key set S may visit the keys
IterationOrders(S) ==
    {f \in [1..Cardinality(S) -> S] : \A i, j \in 1..Cardinality(S) : i # j => f[i] # f[j]}

\* distances[node] = math.Inf(1) for every node, then distances[start] = 0
InitDistances(g, s) == [node \in g.Nodes |-> IF node = s THEN 0 ELSE Inf]

\* mutant: an equal distance also replaces the predecessor
ImprovesOrEqual(alt, d) == alt <= d

\* alt < distances[neighbor]
Improves(alt, d) == alt < d

RECURSIVE RelaxLoop(_, _, _, _, _, _, _)
\* the range over graph.Neighbors[current], visiting the keys in the given order
RelaxLoop(g, current, order, i, dist, prev, pq) ==
    IF i > Len(order) THEN [distances |-> dist, previous |-> prev, queue |-> pq]
    ELSE LET neighbor == order[i]
             alt      == dist[current] + g.Neighbors[current][neighbor]
         IN  IF Improves(alt, dist[neighbor])
             THEN RelaxLoop(g, current, order, i + 1,
                            [dist EXCEPT ![neighbor] = alt],
                            MapSet(prev, neighbor, current),
                            HeapPush(pq, [Value |-> neighbor, Priority |-> alt, Index |-> 0]))
             ELSE RelaxLoop(g, current, order, i + 1, dist, prev, pq)

RECURSIVE Walk(_, _, _, _, _)
\* the loop of ReconstructPath; a walk longer than the number of predecessor
\* entries has entered a cycle and never ends ("loops")
Walk(prev, s, current, path, fuel) ==
    IF current = s THEN [path |-> <<s>> \o path, err |-> NoErr]
    ELSE IF current \notin DOMAIN prev THEN [path |-> <<>>, err |-> "no path found"]
    ELSE IF fuel = 0 THEN [path |-> <<>>, err |-> "loops"]
    ELSE Walk(prev, s, prev[current], <<current>> \o path, fuel - 1)

\* mutant: a missing predecessor ends the walk as if the source were reached
ReconstructPathUnchecked(prev, s, target) ==
    LET r == Walk(prev, s, target, <<>>, Cardinality(DOMAIN prev))
    IN  IF r.err = "no path found" THEN [path |-> <<s, target>>, err |-> NoErr] ELSE r

ReconstructPath(prev, s, target) == Walk(prev, s, target, <<>>, Cardinality(DOMAIN prev))

\* ------------------------------------------------------- callers of the solver

RECURSIVE AddNodes(_, _)
AddNodes(g, S) ==
    IF S = {} THEN g
    ELSE LET n == CHOOSE x \in S : TRUE IN AddNodes(AddNode(g, n), S \ {n})

RECURSIVE AddEdges(_, _, _)
\* AddEdge for every pair the cost function w gives a cost (w[e] >= 0)
AddEdges(g, E, w) ==
    IF E = {} THEN g
    ELSE LET e == CHOOSE x \in E : TRUE
             a == CHOOSE x \in e : TRUE
             b == CHOOSE x \in e : x # a
         IN  AddEdges(IF w[e] >= 0 THEN AddEdge(g, a, b, w[e]) ELSE g, E \ {e}, w)

PairsOf(S) == {e \in SUBSET S : Cardinality(e) = 2}

\* the graphs AddNode and AddEdge build over the node identifiers: any set of
\* nodes, any set of edges between distinct nodes, costs 0..MaxWeight
BuiltGraphs ==
    UNION {{AddEdges(AddNodes(NewGraph, S), PairsOf(S), w)
            : w \in [PairsOf(S) -> -1..MaxWeight]} : S \in SUBSET NodeIds}

InitDijkstra ==
    /\ pc = "ready"
    /\ CallsIdle
    /\ graph \in BuiltGraphs
    /\ lastEdge = EmptyMap
    /\ start = ""
    /\ distances = EmptyMap
    /\ previous = EmptyMap
    /\ priorityQueue = <<>>
    /\ visited = {}
    /\ firstRun = <<>>
    /\ pathRet = NoCall

\* Dijkstra up to the loop: the checks, the maps, the queue holding the source
DijkstraEnter(s) ==
    IF s \notin graph.Nodes
    THEN /\ pc' = "error"
         /\ UNCHANGED <<start, distances, previous, priorityQueue, visited>>
    ELSE /\ pc' = "loop"
         /\ start' = s
         /\ distances' = InitDistances(graph, s)
         /\ previous' = EmptyMap
         /\ priorityQueue' = HeapPush(<<>>, [Value |-> s, Priority |-> 0, Index |-> 0])
         /\ visited' = {}

DijkstraCall(s) ==
    /\ pc = "ready"
    /\ DijkstraEnter(s)
    /\ UNCHANGED <<callVars, ret, graph, lastEdge, firstRun, pathRet>>

\* one iteration of "for priorityQueue.Len() > 0"
DijkstraIterate ==
    /\ pc = "loop"
    /\ Len(priorityQueue) > 0
    /\ LET popped  == HeapPop(priorityQueue)
           current == popped.item.Value
       IN  IF current \in visited
           THEN /\ priorityQueue' = popped.queue
                /\ UNCHANGED <<distances, previous, visited>>
           ELSE \E order \in IterationOrders(DOMAIN graph.Neighbors[current]) :
                    LET r == RelaxLoop(graph, current, order, 1, distances, previous,
                                       popped.queue)
                    IN  /\ visited' = visited \cup {current}
                        /\ distances' = r.distances
                        /\ previous' = r.previous
                        /\ priorityQueue' = r.queue
    /\ UNCHANGED <<pc, callVars, ret, graph, lastEdge, start, firstRun, pathRet>>

\* the queue is empty: return distances, previous, nil
DijkstraReturn ==
    /\ pc = "loop"
    /\ Len(priorityQueue) = 0
    /\ pc' = "done"
    /\ UNCHANGED <<callVars, ret, graph, lastEdge, dijkstraVars>>

\* the caller reconstructs the path to a target from the returned predecessors
CallReconstructPath(target) ==
    /\ pc = "done"
    /\ LET r == ReconstructPath(previous, start, target)
       IN  pathRet' = [op |-> "ReconstructPath", target |-> target,
                       path |-> r.path, err |-> r.err]
    /\ UNCHANGED <<pc, callVars, ret, graph, lastEdge, start, distances, previous,
                   priorityQueue, visited, firstRun>>

\* the caller keeps the result and runs Dijkstra once more, same graph and source
DijkstraCallAgain ==
    /\ pc = "done"
    /\ firstRun = <<>>
    /\ firstRun' = <<[distances |-> distances, previous |-> previous]>>
    /\ pathRet' = NoCall
    /\ DijkstraEnter(start)
    /\ UNCHANGED <<callVars, ret, graph, lastEdge>>

NextDijkstra ==
    \/ \E s \in NodeIds : DijkstraCall(s)
    \/ DijkstraIterate
    \/ DijkstraReturn
    \/ \E target \in NodeIds : CallReconstructPath(target)

SpecDijkstra == InitDijkstra /\ [][NextDijkstra]_vars

\* the same caller, able to run Dijkstra a second time
NextDijkstraTwice ==
    \/ \E s \in NodeIds : DijkstraCall(s)
    \/ DijkstraIterate
    \/ DijkstraReturn
    \/ DijkstraCallAgain

SpecDijkstraTwice == InitDijkstra /\ [][NextDijkstraTwice]_vars

\* ------------------------------------------------------------------ claims
\* nearest-neighbour search and the builder

Dist(p, h) == CalculateDistance(p, h.Location)

RECURSIVE StableOrder(_, _, _, _)
\* the input positions in ascending order of distance to p, equal distances in
\* input order: the reference a stable sort would produce
StableOrder(p, hs, rem, acc) ==
    IF rem = {} THEN acc
    ELSE LET i == CHOOSE x \in rem : \A y \in rem :
                       \/ Dist(p, hs[x]) < Dist(p, hs[y])
                       \/ (Dist(p, hs[x]) = Dist(p, hs[y]) /\ x <= y)
         IN  StableOrder(p, hs, rem \ {i}, Append(acc, i))

\* the first n hubs of the stable ascending sort
StablePrefix(p, hs, n) ==
    LET order == StableOrder(p, hs, 1..Len(hs), <<>>)
    IN  [k \in 1..n |-> hs[order[k]]]

FindNearestHubsServed == ret.op = "FindNearestHubs" /\ N > 0 /\ N <= Len(hubs)

\* C1: FindNearestEmergencyCenter, called with a valid site and an empty list of
\* centers, fails with an error; it never returns the zero-valued
\* EmergencyCenter together with a nil error.
C1_EmptyCentersFail ==
    (ret.op = "FindNearestEmergencyCenter" /\ Validate(site) = NoErr /\ centers = <<>>)
        => (ret.err # NoErr /\ ~(ret.center = ZeroCenter /\ ret.err = NoErr))

\* C3 (as stated): for 0 < N <= M, FindNearestHubs returns exactly the first N
\* elements of a stable ascending sort of the input by distance: hubs at equal
\* distance keep their input order.
C3_StableOrder ==
    FindNearestHubsServed => ret.hubs = StablePrefix(point, hubs, N)

\* C3 (amended): for 0 < N <= M, FindNearestHubs returns N hubs of the input whose
\* distances are, position by position, the distances of the first N elements of
\* the stable ascending sort; hubs at equal distance may appear in either order.
C3_SameDistancesAsStableSort ==
    FindNearestHubsServed =>
        /\ ret.err = NoErr
        /\ Len(ret.hubs) = N
        /\ \A k \in 1..N :
              /\ Dist(point, ret.hubs[k]) = Dist(point, StablePrefix(point, hubs, N)[k])
              /\ \E i \in 1..Len(hubs) : hubs[i] = ret.hubs[k]

\* a call whose answer is not the stable prefix: equal distances were reordered
C3_TieReordered ==
    /\ FindNearestHubsServed
    /\ ret.err = NoErr
    /\ ret.hubs # StablePrefix(point, hubs, N)

\* C4: for M >= N > 0, FindNearestHubs returns without error exactly N hubs in
\* non-decreasing order of distance, each an element of the input, no input
\* position twice, and every hub not returned is at least as far as the last
\* returned one.
C4_NearestNSortedSubset ==
    FindNearestHubsServed =>
        /\ ret.err = NoErr
        /\ Len(ret.hubs) = N
        /\ \A k \in 1..(N - 1) : Dist(point, ret.hubs[k]) <= Dist(point, ret.hubs[k + 1])
        /\ \E f \in [1..N -> 1..Len(hubs)] :
              /\ \A k \in 1..N : hubs[f[k]] = ret.hubs[k]
              /\ \A k, l \in 1..N : k # l => f[k] # f[l]
              /\ \A i \in 1..Len(hubs) :
                    (\A k \in 1..N : f[k] # i)
                        => Dist(point, hubs[i]) >= Dist(point, ret.hubs[N])

\* a call that had to drop hubs and to order at least two, with a tie in the input
C4_SelectionHappened ==
    /\ FindNearestHubsServed
    /\ N >= 2
    /\ N < Len(hubs)
    /\ \E i, j \in 1..Len(hubs) : i # j /\ Dist(point, hubs[i]) = Dist(point, hubs[j])
    /\ Dist(point, hubs[1]) > Dist(point, hubs[Len(hubs)])

BuildReturned == ret.op = "BuildNetworkGraph"

\* C2: in every graph BuildNetworkGraph returns, no hub is its own neighbour.
C2_NoHubSelfLoop ==
    (BuildReturned /\ ret.graph # <<>>) =>
        \A i \in 1..Len(hubs) : hubs[i].ID \notin DOMAIN ret.graph[1].Neighbors[hubs[i].ID]

\* entity e is joined, with the distance as weight, to k nearest hubs among the
\* candidate positions (under some resolution of equal distances)
JoinedToNearest(g, e, cand, k) ==
    \E S \in SUBSET cand :
        /\ Cardinality(S) = k
        /\ \A i \in S :
              /\ e.ID \in g.Nodes
              /\ hubs[i].ID \in DOMAIN g.Neighbors[e.ID]
              /\ g.Neighbors[e.ID][hubs[i].ID] = Dist(e.Location, hubs[i])
              /\ g.Neighbors[hubs[i].ID][e.ID] = Dist(e.Location, hubs[i])
        /\ \A i \in S, j \in cand \ S :
              Dist(e.Location, hubs[i]) <= Dist(e.Location, hubs[j])

HasAllRequiredEdges(g) ==
    /\ \A t \in 1..Len(telecomSites) :
          JoinedToNearest(g, telecomSites[t], 1..Len(hubs), 1)
    /\ \A h \in 1..Len(hubs) :
          JoinedToNearest(g, hubs[h], (1..Len(hubs)) \ {h}, 2)
    /\ \A c \in 1..Len(emergencyCenters) :
          JoinedToNearest(g, emergencyCenters[c], 1..Len(hubs), 5)

SomeRuleUnsatisfiable ==
    \/ (Len(telecomSites) > 0 /\ Len(hubs) < 1)
    \/ (Len(hubs) > 0 /\ Len(hubs) - 1 < 2)
    \/ (Len(emergencyCenters) > 0 /\ Len(hubs) < 5)

\* C8: a build that cannot satisfy a rule returns a nil graph with a non-nil
\* error (no partial graph), and a build that returns a nil error returns a graph
\* holding all edges the three rules require.
C8_FailFastNoPartialGraph ==
    BuildReturned =>
        /\ (SomeRuleUnsatisfiable => (ret.graph = <<>> /\ ret.err # NoErr))
        /\ (ret.err # NoErr => ret.graph = <<>>)
        /\ (ret.err = NoErr => (ret.graph # <<>> /\ HasAllRequiredEdges(ret.graph[1])))

\* a build that failed in the hub rule after the site rule had added its edges
C8_FailedAfterEdgesAdded ==
    /\ BuildReturned
    /\ ret.err # NoErr
    /\ Len(telecomSites) > 0
    /\ Len(hubs) \in {1, 2}

\* the Graph methods

HasEdge(g, a, b) == a \in DOMAIN g.Neighbors /\ b \in DOMAIN g.Neighbors[a]

\* C5: after any sequence of AddNode and AddEdge calls the adjacency is symmetric
\* with equal weights, every neighbour key is a node, and the weight of a pair is
\* the cost of the most recent AddEdge on that pair in either direction.
C5_SymmetricLatestWeight ==
    /\ DOMAIN graph.Neighbors = graph.Nodes
    /\ \A a \in graph.Nodes : \A b \in DOMAIN graph.Neighbors[a] :
          /\ b \in graph.Nodes
          /\ HasEdge(graph, b, a)
          /\ graph.Neighbors[b][a] = graph.Neighbors[a][b]
    /\ \A a, b \in GraphIds :
          /\ HasEdge(graph, a, b) <=> {a, b} \in DOMAIN lastEdge
          /\ HasEdge(graph, a, b) => graph.Neighbors[a][b] = lastEdge[{a, b}].cost

\* a pair whose cost was replaced by a later AddEdge, beside a node without edges
C5_EdgeOverwritten ==
    /\ \E a, b \in GraphIds :
          /\ a # b
          /\ {a, b} \in DOMAIN lastEdge
          /\ lastEdge[{a, b}].overwrote
          /\ graph.Neighbors[a][b] = lastEdge[{a, b}].cost
    /\ \E c \in graph.Nodes : DOMAIN graph.Neighbors[c] = {}

\* Dijkstra and ReconstructPath

RECURSIVE PathWeight(_, _, _)
\* the sum of the edge weights along p from position i on
PathWeight(g, p, i) ==
    IF i >= Len(p) THEN 0 ELSE g.Neighbors[p[i]][p[i + 1]] + PathWeight(g, p, i + 1)

Least(S) == CHOOSE w \in S : \A x \in S : w <= x

RECURSIVE LeastWithin(_, _, _)
\* for every node the least total weight of a path of at most k edges from s
\* (Inf when there is none), by induction on k
LeastWithin(g, s, k) ==
    IF k <= 0 THEN [v \in g.Nodes |-> IF v = s THEN 0 ELSE Inf] @@ EmptyMap
    ELSE LET d == LeastWithin(g, s, k - 1)
         IN  [v \in g.Nodes |->
                 Least({d[v]} \cup {d[u] + g.Neighbors[u][v] :
                                     u \in {x \in g.Nodes : HasEdge(g, x, v) /\ d[x] < Inf}})]
             @@ EmptyMap

\* the least total weight over all paths from the source: with weights >= 0 a
\* least path repeats no node, so it has fewer edges than there are nodes
MinPathWeight == LeastWithin(graph, start, Cardinality(graph.Nodes) - 1)

Connected(v) == MinPathWeight[v] < Inf

\* C6: the returned distances satisfy dist[w] <= dist[v] + weight(v, w) for every
\* edge (v, w) with v reachable, and dist[v] is the least total weight over all
\* paths from the source, for every reachable v.
C6_ShortestDistances ==
    pc = "done" =>
        LET least == MinPathWeight
        IN  \A v \in graph.Nodes :
                least[v] < Inf =>
                    /\ distances[v] = least[v]
                    /\ \A w \in DOMAIN graph.Neighbors[v] :
                          distances[w] <= distances[v] + graph.Neighbors[v][w]

\* a finished run in which the edge to some node is costlier than a detour
C6_DetourWins ==
    /\ pc = "done"
    /\ \E v \in graph.Nodes :
          /\ HasEdge(graph, start, v)
          /\ distances[v] < graph.Neighbors[start][v]
          /\ previous[v] # start

\* C7: dist[source] = 0; every node not connected to the source keeps distance
\* infinity, has no predecessor entry, and ReconstructPath to it fails with
\* "no path found".
C7_SourceZeroUnreachableInf ==
    pc = "done" =>
        LET least == MinPathWeight
        IN  /\ distances[start] = 0
            /\ \A u \in graph.Nodes :
                  (u # start /\ least[u] = Inf) =>
                      /\ distances[u] = Inf
                      /\ u \notin DOMAIN previous
                      /\ ReconstructPath(previous, start, u).err = "no path found"
                      /\ (pathRet.op = "ReconstructPath" /\ pathRet.target = u)
                             => (pathRet.err = "no path found" /\ pathRet.path = <<>>)

\* ReconstructPath was called for a node of another component, after a run that
\* did reach other nodes
C7_UnreachableTargetAsked ==
    /\ pc = "done"
    /\ pathRet.op = "ReconstructPath"
    /\ pathRet.target \in graph.Nodes
    /\ pathRet.target # start
    /\ ~Connected(pathRet.target)
    /\ DOMAIN graph.Neighbors[pathRet.target] # {}
    /\ DOMAIN previous # {}

\* C9: two runs of Dijkstra on the same graph from the same source return the
\* same distance map and the same predecessor map.
C9_RunsAgree ==
    (pc = "done" /\ firstRun # <<>>) =>
        /\ distances = firstRun[1].distances
        /\ previous = firstRun[1].previous

\* C10: for every target reachable from the source, ReconstructPath on the
\* returned predecessors ends without error and returns a sequence from the
\* source to the target that repeats no node, follows edges of the graph, and
\* whose edge weights sum to dist[target].
C10_PathIsShortest ==
    pc = "done" =>
        \A t \in {v \in graph.Nodes : Connected(v)} :
                LET r == ReconstructPath(previous, start, t)
                IN  /\ r.err = NoErr
                    /\ r.path[1] = start
                    /\ r.path[Len(r.path)] = t
                    /\ \A i, j \in 1..Len(r.path) : i # j => r.path[i] # r.path[j]
                    /\ \A i \in 1..(Len(r.path) - 1) :
                          HasEdge(graph, r.path[i], r.path[i + 1])
                    /\ PathWeight(graph, r.path, 1) = distances[t]
                    /\ (pathRet.op = "ReconstructPath" /\ pathRet.target = t)
                           => (pathRet.err = NoErr /\ pathRet.path = r.path)

\* ReconstructPath returned a path over two intermediate nodes, one of its
\* edges of cost 0
C10_LongPathReturned ==
    /\ pc = "done"
    /\ pathRet.op = "ReconstructPath"
    /\ pathRet.err = NoErr
    /\ Len(pathRet.path) = 4
    /\ \E i \in 1..3 : graph.Neighbors[pathRet.path[i]][pathRet.path[i + 1]] = 0

====
